---- MODULE Spec2Model ----
(***************************************************************************)
(* Model of tailgate_monitor.py: the unlock window (UNLOCK_EVENTS, WINDOW),*)
(* the people counter (PEOPLE_COUNT under PEOPLE_LOCK) and the in-memory   *)
(* event log (EVENT_LOG under EVENT_LOCK), driven by the Flask handlers    *)
(* camera(), test_access(), set_window() and clear_db().  Handlers run on  *)
(* worker threads and are split into steps at every access to shared      *)
(* state, so that steps of different threads interleave as the bytecode    *)
(* of the handlers can.  Time is an integer number of seconds.  The        *)
(* handlers events(), set_mode() and set_netbox_config(), and the NetBox   *)
(* listener thread started by start_netbox_thread(), are modelled too.     *)
(***************************************************************************)
EXTENDS Integers, Sequences, FiniteSets, TLC

(* ------------------------------ bounds --------------------------------- *)
NThreads == 2
MaxRequests == 3
MaxClock == 1
MaxRequestsSeq == 3
MaxClockSeq == 2
MaxLogRequests == 102
MaxListeners == 2
MaxNotices == 2
MaxRequestsNb == 2
MaxClockNb == 1
MaxRequestsConf == 3
MaxRequestsPrune == 2
MaxTs == 3
MaxLen == 3
MaxWindowPrune == 3
MaxRequestsFair == 2

(* ------------------------- program constants --------------------------- *)
DEFAULT_WINDOW == 10
EVENT_LOG_MAXLEN == 100
WINDOW_MIN == 1
WINDOW_MAX == 60

Threads == 1..NThreads
\* the threads that can run netbox_wrapper; the worker threads come first
Listeners == (NThreads + 1)..(NThreads + MaxListeners)
AllThreads == Threads \cup Listeners

VARIABLES
    clock,          \* the wall clock read by datetime.now()
    WINDOW,         \* module global WINDOW
    UNLOCK_EVENTS,  \* module global UNLOCK_EVENTS, a list of timestamps
    PEOPLE_COUNT,   \* module global PEOPLE_COUNT
    PEOPLE_LOCK,    \* holder of PEOPLE_LOCK, 0 when free
    EVENT_LOG,      \* the deque EVENT_LOG, front first
    EVENT_LOCK,     \* holder of EVENT_LOCK, 0 when free
    th,             \* per worker thread: position and locals of its handler
    nreq,           \* history: requests received so far
    arrivals,       \* history: entries appended to EVENT_LOG so far
    recorded,       \* history: unlocks appended to UNLOCK_EVENTS so far
    granted,        \* history: sum of the required counts of NO TAILGATE verdicts
    ops,            \* history: counter operations in the order they took effect
    app,            \* the Flask app object: app.config and app.netbox_thread
    nbx             \* the NetBox side: listener threads and the notices sent

vars == <<clock, WINDOW, UNLOCK_EVENTS, PEOPLE_COUNT, PEOPLE_LOCK, EVENT_LOG,
          EVENT_LOCK, th, nreq, arrivals, recorded, granted, ops, app, nbx>>

(* ------------------------------ strings -------------------------------- *)
\* A Python str is a sequence of one-character strings.
UpperChars == <<"A","B","C","D","E","F","G","H","I","J","K","L","M",
                "N","O","P","Q","R","S","T","U","V","W","X","Y","Z">>
LowerChars == <<"a","b","c","d","e","f","g","h","i","j","k","l","m",
                "n","o","p","q","r","s","t","u","v","w","x","y","z">>
Digits == <<"0","1","2","3","4","5","6","7","8","9">>

LowerChar(c) ==
    IF \E i \in 1..Len(UpperChars) : UpperChars[i] = c
    THEN LowerChars[CHOOSE i \in 1..Len(UpperChars) : UpperChars[i] = c]
    ELSE c

\* str.lower()
lower(s) == [i \in 1..Len(s) |-> LowerChar(s[i])]

\* the operator  sub in s
Contains(sub, s) ==
    \E k \in 0..(Len(s) - Len(sub)) :
        \A i \in 1..Len(sub) : s[k + i] = sub[i]

STR_UNLOCK == <<"u","n","l","o","c","k">>
STR_LOCK == <<"l","o","c","k">>

\* 'unlock' in desc.lower()
HasUnlock(desc) == Contains(STR_UNLOCK, lower(desc))

\* 'lock' in desc.lower()
HasLock(desc) == Contains(STR_LOCK, lower(desc))

IsSpace(c) == c = " "
IsDigit(c) == \E i \in 1..Len(Digits) : Digits[i] = c
DigitVal(c) == (CHOOSE i \in 1..Len(Digits) : Digits[i] = c) - 1

\* s.split()[0]: the first whitespace-delimited token; <<>> stands for the
\* IndexError of an all-whitespace or empty string (a token is never empty).
FirstToken(s) ==
    IF \A i \in 1..Len(s) : IsSpace(s[i]) THEN <<>>
    ELSE LET b == CHOOSE i \in 1..Len(s) :
                      /\ ~IsSpace(s[i])
                      /\ \A j \in 1..(i - 1) : IsSpace(s[j])
             e == CHOOSE i \in b..Len(s) :
                      /\ \A j \in b..i : ~IsSpace(s[j])
                      /\ (i = Len(s) \/ IsSpace(s[i + 1]))
         IN SubSeq(s, b, e)

RECURSIVE DigitsVal(_)
DigitsVal(s) ==
    IF s = <<>> THEN 0
    ELSE 10 * DigitsVal(SubSeq(s, 1, Len(s) - 1)) + DigitVal(s[Len(s)])

\* int(tok) on a token: an optional sign and at least one digit, anything
\* else raises ValueError.
IntOk(tok) ==
    LET body == IF tok # <<>> /\ tok[1] \in {"-", "+"} THEN Tail(tok) ELSE tok
    IN body # <<>> /\ \A i \in 1..Len(body) : IsDigit(body[i])
IntVal(tok) ==
    IF tok[1] = "-" THEN 0 - DigitsVal(Tail(tok))
    ELSE IF tok[1] = "+" THEN DigitsVal(Tail(tok))
    ELSE DigitsVal(tok)

\* s.strip(), as int() does to a string before it parses it
Strip(s) ==
    IF \A i \in 1..Len(s) : IsSpace(s[i]) THEN <<>>
    ELSE LET b == CHOOSE i \in 1..Len(s) :
                      ~IsSpace(s[i]) /\ \A j \in 1..(i - 1) : IsSpace(s[j])
             e == CHOOSE i \in 1..Len(s) :
                      ~IsSpace(s[i]) /\ \A j \in (i + 1)..Len(s) : IsSpace(s[j])
         IN SubSeq(s, b, e)

\* data.get('EventCaption', '2')
CaptionOrDefault(data) == IF data.hasCaption THEN data.EventCaption ELSE <<"2">>

\* int(data.get('EventCaption', '2').split()[0] or 2): does it raise?
CountRaises(data) ==
    LET tok == FirstToken(CaptionOrDefault(data))
    IN tok = <<>> \/ ~IntOk(tok)
\* ... and its value when it does not
CountValue(data) == IntVal(FirstToken(CaptionOrDefault(data)))

(* ---------------------------- list helpers ----------------------------- *)
RECURSIVE SeqMin(_)
SeqMin(s) ==
    IF Len(s) = 1 THEN s[1]
    ELSE LET m == SeqMin(Tail(s)) IN IF s[1] <= m THEN s[1] ELSE m

RECURSIVE SeqMax(_)
SeqMax(s) ==
    IF Len(s) = 1 THEN s[1]
    ELSE LET m == SeqMax(Tail(s)) IN IF s[1] >= m THEN s[1] ELSE m

InList(x, s) == \E i \in 1..Len(s) : s[i] = x

\* list.remove(x): removes the first element equal to x
RemoveFirst(s, x) ==
    LET k == CHOOSE i \in 1..Len(s) : s[i] = x /\ \A j \in 1..(i - 1) : s[j] # x
    IN SubSeq(s, 1, k - 1) \o SubSeq(s, k + 1, Len(s))

CountOf(x, s) == Cardinality({i \in 1..Len(s) : s[i] = x})

PrunedOnceMutant(events, cutoff) ==
    IF \E i \in 1..Len(events) : events[i] < cutoff
    THEN LET k == CHOOSE i \in 1..Len(events) :
                      events[i] < cutoff /\ \A j \in 1..(i - 1) : events[j] >= cutoff
         IN SubSeq(events, 1, k - 1) \o SubSeq(events, k + 1, Len(events))
    ELSE events
PrunedMutant(events, cutoff) ==
    LET Keep(ts) == ts > cutoff IN SelectSeq(events, Keep)
\* [ts for ts in UNLOCK_EVENTS if ts >= cutoff]
Pruned(events, cutoff) ==
    LET Keep(ts) == ts >= cutoff IN SelectSeq(events, Keep)

\* [t for t in UNLOCK_EVENTS if 0 <= (now_utc - t).total_seconds() <= WINDOW]
Recent(events, now, window) ==
    LET In(ts) == 0 <= now - ts /\ now - ts <= window IN SelectSeq(events, In)

EnoughMutant(recent, count) == Len(recent) > count
\* len(recent_unlocks) >= count
Enough(recent, count) == Len(recent) >= count

OldestMutant(recent) == SeqMax(recent)
\* min(recent_unlocks)
Oldest(recent) == SeqMin(recent)

(* ------------------------------ event log ------------------------------ *)
appendleftMutant(log, e) ==
    IF Len(log) >= EVENT_LOG_MAXLEN THEN Tail(log) \o <<e>> ELSE log \o <<e>>
\* deque(maxlen=100).appendleft(e): insert at the front, drop the last
\* element when the deque is full
appendleft(log, e) ==
    IF Len(log) >= EVENT_LOG_MAXLEN
    THEN <<e>> \o SubSeq(log, 1, EVENT_LOG_MAXLEN - 1)
    ELSE <<e>> \o log

\* the loop of camera() lines 191-200: the first entry, from the front, with
\* the same type, time and event name gets the verdict
PatchMatch(log, time, name, i) ==
    /\ log[i].type = "camera"
    /\ log[i].time = time
    /\ log[i].event = name
\* the arrival number of the entry that loop changes, 0 when it finds none
PatchedArrival(log, time, name) ==
    IF \E i \in 1..Len(log) : PatchMatch(log, time, name, i)
    THEN log[CHOOSE i \in 1..Len(log) :
                 /\ PatchMatch(log, time, name, i)
                 /\ \A j \in 1..(i - 1) : ~PatchMatch(log, time, name, j)].arrival
    ELSE 0
PatchVerdict(log, time, name, verdict) ==
    LET Match(i) == PatchMatch(log, time, name, i)
    IN IF \E i \in 1..Len(log) : Match(i)
       THEN LET k == CHOOSE i \in 1..Len(log) :
                         Match(i) /\ \A j \in 1..(i - 1) : ~Match(j)
            IN [log EXCEPT ![k].verdict = verdict]
       ELSE log

upper(eventType) ==
    CASE eventType = "tailgating" -> "TAILGATING"
      [] eventType = "linecrossing" -> "LINECROSSING"
      [] OTHER -> eventType

\* the dict camera() passes to log_event
CameraEntry(data, now, arrival) ==
    [type |-> "camera", time |-> now, event |-> data.EventName,
     desc |-> <<>>,
     count |-> IF data.hasCaption THEN data.EventCaption ELSE <<>>,
     verdict |-> IF data.EventType # "" THEN upper(data.EventType) ELSE "UNKNOWN",
     arrival |-> arrival]

\* the dict test_access() passes to log_event
AccessEntry(data, now, arrival) ==
    [type |-> "access", time |-> now, event |-> "", desc |-> data.desc,
     count |-> <<>>, verdict |-> "", arrival |-> arrival]

(* ------------------------------- requests ------------------------------ *)
NoData ==
    [EventType |-> "", EventName |-> "", hasCaption |-> FALSE,
     EventCaption |-> <<>>, desc |-> <<>>, window |-> 0,
     \* the JSON type of 'window' ("absent" when the key is missing), the
     \* tenths of a JSON float and the text of a JSON string
     wtype |-> "int", wfrac |-> 0, wstr |-> <<>>,
     \* the JSON type of 'mode' and its text; 'enabled' of set_netbox_config
     mtype |-> "absent", mode |-> <<>>, enabled |-> FALSE]

CameraData(type, hasCaption, caption) ==
    [NoData EXCEPT !.EventType = type, !.EventName = "<unnamed>",
                   !.hasCaption = hasCaption, !.EventCaption = caption]
AccessData(desc) == [NoData EXCEPT !.desc = desc]
WindowData(w) == [NoData EXCEPT !.window = w]

Captions == { <<>>, <<"a">>, <<"-","1">>, <<"0">>, <<"1">>, <<"2">> }
CameraInputs ==
    {CameraData("tailgating", TRUE, c) : c \in Captions}
    \cup {CameraData("tailgating", FALSE, <<>>),
          CameraData("linecrossing", FALSE, <<>>)}
CameraInputsConc ==
    {CameraData("tailgating", TRUE, <<"1">>),
     CameraData("tailgating", TRUE, <<"0">>),
     CameraData("linecrossing", FALSE, <<>>)}

DOOR_UNLOCK == <<"D","o","o","r"," ","U","n","l","o","c","k">>
DOOR_LOCK == <<"D","o","o","r"," ","L","o","c","k">>
DOOR_HELD == <<"D","o","o","r"," ","H","e","l","d">>
AccessInputs == {AccessData(DOOR_UNLOCK), AccessData(DOOR_LOCK), AccessData(DOOR_HELD)}
AccessInputsConc == {AccessData(DOOR_UNLOCK), AccessData(DOOR_LOCK)}
AccessInputsLog == {AccessData(DOOR_HELD)}

WindowInputs == {WindowData(0), WindowData(1), WindowData(61)}
WindowInputsConc == {WindowData(1)}
\* a JSON float whole + tenths / 10 (whole >= 0), a JSON string, null, no key
WindowFloat(whole, tenths) ==
    [NoData EXCEPT !.wtype = "float", !.window = whole, !.wfrac = tenths]
WindowStr(str) == [NoData EXCEPT !.wtype = "str", !.wstr = str]
WindowNull == [NoData EXCEPT !.wtype = "null"]
WindowAbsent == [NoData EXCEPT !.wtype = "absent"]
WindowInputsConf ==
    {WindowData(0), WindowData(1), WindowData(60), WindowData(61),
     WindowFloat(0, 5), WindowFloat(1, 5), WindowFloat(60, 5),
     WindowStr(<<"x">>), WindowStr(<<" ", "5">>), WindowNull, WindowAbsent}

NetboxData(enabled) == [NoData EXCEPT !.enabled = enabled]
NetboxInputs == {NetboxData(TRUE), NetboxData(FALSE)}
\* the DESCNAME of the events NetBox streams
NoticeInputs == {DOOR_UNLOCK, DOOR_LOCK}

STR_TAILGATING == <<"t","a","i","l","g","a","t","i","n","g">>
STR_LINECROSSING == <<"l","i","n","e","c","r","o","s","s","i","n","g">>
ModeData(str) == [NoData EXCEPT !.mtype = "str", !.mode = str]
ModeNumber == [NoData EXCEPT !.mtype = "int"]
ModeInputs ==
    {ModeData(STR_TAILGATING), ModeData(STR_LINECROSSING),
     ModeData(<<"T","a","i","l","g","a","t","i","n","g">>),
     ModeData(<<"o","f","f">>), ModeNumber, NoData}

(* -------------------------------- locks -------------------------------- *)
releaseMutant(lock) == lock
\* the end of a with block: Lock.release() leaves the lock free
release(lock) == 0

(* --------------------------- thread locals ----------------------------- *)
Idle ==
    [pc |-> "idle", kind |-> "", data |-> NoData, now |-> 0,
     count |-> 0, pnow |-> 0, plist |-> <<>>, recent |-> <<>>,
     verdict |-> "", i |-> 0, tmp |-> 0,
     status |-> "", classification |-> "", people_count |-> <<>>,
     \* history of this request
     held |-> <<>>, before |-> <<>>, base |-> <<>>, k |-> 0,
     removed |-> <<>>, c0 |-> 0, incValue |-> 0,
     entry |-> 0, a0 |-> 0, o0 |-> 0, u0 |-> 0, w0 |-> 0, m0 |-> "",
     notice |-> 0, patched |-> 0, cutoff |-> 0]

Free(t) == th[t].pc \in {"idle", "done", "error"}

\* return jsonify(...): the handler ends and its locals die
Return(r) ==
    [r EXCEPT !.pc = "done", !.plist = <<>>, !.recent = <<>>, !.tmp = 0,
              !.i = 0, !.pnow = 0]

\* an exception leaves the handler: Flask answers 500
Raise(r) ==
    [r EXCEPT !.pc = "error", !.status = "error", !.plist = <<>>,
              !.recent = <<>>, !.tmp = 0, !.i = 0, !.pnow = 0]

Init ==
    /\ clock = 0
    /\ WINDOW = DEFAULT_WINDOW
    /\ UNLOCK_EVENTS = <<>>
    /\ PEOPLE_COUNT = 0
    /\ PEOPLE_LOCK = 0
    /\ EVENT_LOG = <<>>
    /\ EVENT_LOCK = 0
    /\ th = [t \in AllThreads |-> Idle]
    /\ nreq = 0
    /\ arrivals = 0
    /\ recorded = 0
    /\ granted = 0
    /\ ops = <<>>
    /\ app = [MODE |-> "", enabled |-> FALSE, netbox_thread |-> 0]
    /\ nbx = [alive |-> [l \in Listeners |-> "none"], notices |-> <<>>,
              appended |-> <<>>]

\* time passes
Tick(max) ==
    /\ clock < max
    /\ clock' = clock + 1
    /\ UNCHANGED <<WINDOW, UNLOCK_EVENTS, PEOPLE_COUNT, PEOPLE_LOCK, EVENT_LOG,
                   EVENT_LOCK, th, nreq, arrivals, recorded, granted, ops, app, nbx>>
    /\ UNCHANGED <<app, nbx>>

(* ------------------------------ handlers ------------------------------- *)
Others == <<clock, WINDOW, UNLOCK_EVENTS, PEOPLE_COUNT, PEOPLE_LOCK, EVENT_LOG,
            EVENT_LOCK, arrivals, recorded, granted, ops>>

\* camera(), lines 143-149: a worker picks up a POST /camera
StartCamera(t, inputs, limit) ==
    /\ Free(t)
    /\ nreq < limit
    /\ \E d \in inputs :
         th' = [th EXCEPT ![t] =
                  [Idle EXCEPT !.pc = "log", !.kind = "camera", !.data = d,
                               !.now = clock, !.status = "ok",
                               !.held = UNLOCK_EVENTS, !.c0 = PEOPLE_COUNT,
                               !.a0 = arrivals]]
    /\ nreq' = nreq + 1
    /\ UNCHANGED Others
    /\ UNCHANGED <<app, nbx>>

\* test_access(), lines 222-226: a worker picks up a POST /test_access
StartAccess(t, inputs, limit) ==
    /\ Free(t)
    /\ nreq < limit
    /\ \E d \in inputs :
         th' = [th EXCEPT ![t] =
                  [Idle EXCEPT !.pc = "log", !.kind = "access", !.data = d,
                               !.now = clock, !.status = "ok",
                               !.c0 = PEOPLE_COUNT]]
    /\ nreq' = nreq + 1
    /\ UNCHANGED Others
    /\ UNCHANGED <<app, nbx>>

\* log_event(), line 96: with EVENT_LOCK
log_event_enter(t) ==
    /\ th[t].pc = "log"
    /\ EVENT_LOCK = 0
    /\ EVENT_LOCK' = t
    /\ th' = [th EXCEPT ![t].pc = "log_cs"]
    /\ UNCHANGED <<clock, WINDOW, UNLOCK_EVENTS, PEOPLE_COUNT, PEOPLE_LOCK,
                   EVENT_LOG, nreq, arrivals, recorded, granted, ops>>
    /\ UNCHANGED <<app, nbx>>

AfterLogCameraMutant(r) ==
    IF r.data.EventType \in {"linecrossing", "tailgating"}
    THEN IF CountRaises(r.data)
         THEN Raise(r)
         ELSE [r EXCEPT !.pc = "prune", !.count = CountValue(r.data)]
    ELSE Return(r)
\* where camera() goes after log_event: lines 163, 168 and 169
AfterLogCamera(r) ==
    IF r.data.EventType = "linecrossing" THEN [r EXCEPT !.pc = "inc_acq"]
    ELSE IF r.data.EventType = "tailgating"
         THEN IF CountRaises(r.data)
              THEN Raise(r)
              ELSE [r EXCEPT !.pc = "prune", !.count = CountValue(r.data)]
         ELSE Return(r)

\* where test_access() goes after its decrement: line 243
AfterUnlockAccess(r) ==
    IF HasLock(r.data.desc) THEN [r EXCEPT !.pc = "reset_acq", !.tmp = 0]
    ELSE Return(r)

\* where test_access() goes after log_event: lines 234 and 243
AfterLogAccess(r) ==
    IF HasUnlock(r.data.desc) THEN [r EXCEPT !.pc = "append"]
    ELSE AfterUnlockAccess(r)

\* where netbox_wrapper goes after log_event: line 399; it goes back to
\* the event stream when the description holds no 'unlock'
AfterLogNetbox(r) ==
    IF HasUnlock(r.data.desc) THEN [r EXCEPT !.pc = "append"]
    ELSE [r EXCEPT !.pc = "stream"]

\* log_event(), line 97, and the release of EVENT_LOCK
log_event_append(t) ==
    /\ th[t].pc = "log_cs"
    /\ LET r == [th[t] EXCEPT !.entry = arrivals + 1]
           e == IF r.kind = "camera"
                THEN CameraEntry(r.data, r.now, arrivals + 1)
                ELSE AccessEntry(r.data, r.now, arrivals + 1)
       IN /\ EVENT_LOG' = appendleft(EVENT_LOG, e)
          /\ th' = [th EXCEPT ![t] =
                      CASE r.kind = "camera" -> AfterLogCamera(r)
                        [] r.kind = "netbox" -> AfterLogNetbox(r)
                        [] OTHER -> AfterLogAccess(r)]
    /\ arrivals' = arrivals + 1
    /\ EVENT_LOCK' = release(EVENT_LOCK)
    /\ UNCHANGED <<clock, WINDOW, UNLOCK_EVENTS, PEOPLE_COUNT, PEOPLE_LOCK,
                   nreq, recorded, granted, ops>>
    /\ UNCHANGED <<app, nbx>>

\* test_access(), line 236, and netbox_wrapper, line 400:
\* UNLOCK_EVENTS.append(now_utc)
record_unlock(t) ==
    /\ th[t].pc = "append"
    /\ UNLOCK_EVENTS' = Append(UNLOCK_EVENTS, th[t].now)
    /\ recorded' = recorded + 1
    /\ th' = [th EXCEPT ![t].pc = "prune"]
    /\ nbx' = IF th[t].kind = "netbox"
              THEN [nbx EXCEPT !.appended = Append(@, th[t].notice)]
              ELSE nbx
    /\ UNCHANGED <<clock, WINDOW, PEOPLE_COUNT, PEOPLE_LOCK, EVENT_LOG,
                   EVENT_LOCK, nreq, arrivals, granted, ops>>
    /\ UNCHANGED app

\* prune_unlocks(), line 91 and the list comprehension of line 93: the
\* filtered copy is built from the list as it is now
prune_unlocks_build(t) ==
    /\ th[t].pc = "prune"
    /\ th' = [th EXCEPT ![t].pc = "prune_store",
                        ![t].pnow = clock, ![t].cutoff = clock - WINDOW,
                        ![t].plist = Pruned(UNLOCK_EVENTS, clock - WINDOW)]
    /\ UNCHANGED nreq
    /\ UNCHANGED Others
    /\ UNCHANGED <<app, nbx>>

\* prune_unlocks(), line 93: the assignment to the global UNLOCK_EVENTS
prune_unlocks_store(t) ==
    /\ th[t].pc = "prune_store"
    /\ UNLOCK_EVENTS' = th[t].plist
    /\ th' = [th EXCEPT ![t].pc = CASE th[t].kind = "camera" -> "match"
                                    [] th[t].kind = "netbox" -> "stream"
                                    [] OTHER -> "dec_acq",
                        ![t].before = UNLOCK_EVENTS]
    /\ UNCHANGED <<clock, WINDOW, PEOPLE_COUNT, PEOPLE_LOCK, EVENT_LOG,
                   EVENT_LOCK, nreq, arrivals, recorded, granted, ops>>
    /\ UNCHANGED <<app, nbx>>

\* camera(), lines 172-187: the recent unlocks and the verdict
match_unlocks(t) ==
    /\ th[t].pc = "match"
    /\ LET r == th[t]
           rec == Recent(UNLOCK_EVENTS, r.now, WINDOW)
           seen == [r EXCEPT !.recent = rec, !.base = UNLOCK_EVENTS,
                             !.k = Len(rec)]
       IN th' = [th EXCEPT ![t] =
                   IF Enough(rec, r.count)
                   THEN [seen EXCEPT !.verdict = "NO TAILGATE",
                                     !.i = r.count,
                                     !.pc = IF r.count > 0 THEN "consume"
                                            ELSE "patch"]
                   ELSE [seen EXCEPT !.verdict = "TAILGATING", !.pc = "patch"]]
    /\ UNCHANGED nreq
    /\ UNCHANGED Others
    /\ UNCHANGED <<app, nbx>>

\* camera(), lines 180-184: one round of the consuming loop; list.remove
\* raises ValueError when the element is no longer in UNLOCK_EVENTS
consume_oldest(t) ==
    /\ th[t].pc = "consume"
    /\ LET r == th[t]
           oldest == Oldest(r.recent)
       IN IF InList(oldest, UNLOCK_EVENTS)
          THEN /\ UNLOCK_EVENTS' = RemoveFirst(UNLOCK_EVENTS, oldest)
               /\ th' = [th EXCEPT ![t] =
                           [r EXCEPT !.recent = RemoveFirst(r.recent, oldest),
                                     !.removed = Append(r.removed, oldest),
                                     !.i = r.i - 1,
                                     !.pc = IF r.i - 1 > 0 THEN "consume"
                                            ELSE "patch"]]
          ELSE /\ UNLOCK_EVENTS' = UNLOCK_EVENTS
               /\ th' = [th EXCEPT ![t] = Raise(r)]
    /\ UNCHANGED <<clock, WINDOW, PEOPLE_COUNT, PEOPLE_LOCK, EVENT_LOG,
                   EVENT_LOCK, nreq, arrivals, recorded, granted, ops>>
    /\ UNCHANGED <<app, nbx>>

\* camera(), lines 188-190: the classification of the response, then
\* with EVENT_LOCK
patch_enter(t) ==
    /\ th[t].pc = "patch"
    /\ EVENT_LOCK = 0
    /\ EVENT_LOCK' = t
    /\ th' = [th EXCEPT ![t].pc = "patch_cs",
                        ![t].classification = th[t].verdict]
    /\ UNCHANGED <<clock, WINDOW, UNLOCK_EVENTS, PEOPLE_COUNT, PEOPLE_LOCK,
                   EVENT_LOG, nreq, arrivals, recorded, granted, ops>>
    /\ UNCHANGED <<app, nbx>>

\* camera(), lines 191-201: the verdict of the log entry, the release of
\* EVENT_LOCK and the response
patch_verdict(t) ==
    /\ th[t].pc = "patch_cs"
    /\ EVENT_LOG' = PatchVerdict(EVENT_LOG, th[t].now, th[t].data.EventName,
                                 th[t].verdict)
    /\ EVENT_LOCK' = release(EVENT_LOCK)
    /\ th' = [th EXCEPT ![t] =
                [Return(th[t]) EXCEPT !.patched =
                    PatchedArrival(EVENT_LOG, th[t].now, th[t].data.EventName)]]
    /\ granted' = IF th[t].classification = "NO TAILGATE" /\ th[t].count > 0
                  THEN granted + th[t].count ELSE granted
    /\ UNCHANGED <<clock, WINDOW, UNLOCK_EVENTS, PEOPLE_COUNT, PEOPLE_LOCK,
                   nreq, arrivals, recorded, ops>>
    /\ UNCHANGED <<app, nbx>>

PeopleLockFreeMutant == TRUE
\* PEOPLE_LOCK can be acquired by a with PEOPLE_LOCK
PeopleLockFree == PEOPLE_LOCK = 0

\* events(), lines 212-215: a worker picks up a GET /events; get_events()
\* reads the database, not EVENT_LOG
StartEvents(t, limit) ==
    /\ Free(t)
    /\ nreq < limit
    /\ th' = [th EXCEPT ![t] = [Idle EXCEPT !.pc = "ev_acq", !.kind = "events",
                                            !.status = "ok"]]
    /\ nreq' = nreq + 1
    /\ UNCHANGED Others
    /\ UNCHANGED <<app, nbx>>

\* events(), lines 217-218: people_count = PEOPLE_COUNT, the release and
\* the response
events_read(t) ==
    /\ th[t].pc = "ev_read"
    /\ th' = [th EXCEPT ![t] =
                [Return(th[t]) EXCEPT !.people_count = <<PEOPLE_COUNT>>]]
    /\ PEOPLE_LOCK' = release(PEOPLE_LOCK)
    /\ UNCHANGED <<clock, WINDOW, UNLOCK_EVENTS, PEOPLE_COUNT, EVENT_LOG,
                   EVENT_LOCK, nreq, arrivals, recorded, granted, ops>>
    /\ UNCHANGED <<app, nbx>>

\* with PEOPLE_LOCK, lines 164, 216, 240 and 244
people_enter(t) ==
    /\ th[t].pc \in {"inc_acq", "dec_acq", "reset_acq", "ev_acq"}
    /\ PeopleLockFree
    /\ PEOPLE_LOCK' = t
    /\ th' = [th EXCEPT ![t].pc = CASE th[t].pc = "inc_acq" -> "inc_read"
                                    [] th[t].pc = "dec_acq" -> "dec_read"
                                    [] th[t].pc = "ev_acq" -> "ev_read"
                                    [] OTHER -> "reset"]
    /\ UNCHANGED <<clock, WINDOW, UNLOCK_EVENTS, PEOPLE_COUNT, EVENT_LOG,
                   EVENT_LOCK, nreq, arrivals, recorded, granted, ops>>
    /\ UNCHANGED <<app, nbx>>

\* PEOPLE_COUNT += 1 and PEOPLE_COUNT -= 1, lines 165 and 241: the load
people_read(t) ==
    /\ th[t].pc \in {"inc_read", "dec_read"}
    /\ th' = [th EXCEPT ![t].tmp = PEOPLE_COUNT,
                        ![t].pc = IF th[t].pc = "inc_read" THEN "inc_write"
                                  ELSE "dec_write"]
    /\ UNCHANGED nreq
    /\ UNCHANGED Others
    /\ UNCHANGED <<app, nbx>>

\* PEOPLE_COUNT += 1, line 165: the store
inc_write(t) ==
    /\ th[t].pc = "inc_write"
    /\ PEOPLE_COUNT' = th[t].tmp + 1
    /\ ops' = Append(ops, "inc")
    /\ th' = [th EXCEPT ![t].pc = "inc_resp", ![t].incValue = th[t].tmp + 1]
    /\ UNCHANGED <<clock, WINDOW, UNLOCK_EVENTS, PEOPLE_LOCK, EVENT_LOG,
                   EVENT_LOCK, nreq, arrivals, recorded, granted>>
    /\ UNCHANGED <<app, nbx>>

\* response['people_count'] = PEOPLE_COUNT, line 166, and the release
inc_respond(t) ==
    /\ th[t].pc = "inc_resp"
    /\ th' = [th EXCEPT ![t] =
                [Return(th[t]) EXCEPT !.people_count = <<PEOPLE_COUNT>>]]
    /\ PEOPLE_LOCK' = release(PEOPLE_LOCK)
    /\ UNCHANGED <<clock, WINDOW, UNLOCK_EVENTS, PEOPLE_COUNT, EVENT_LOG,
                   EVENT_LOCK, nreq, arrivals, recorded, granted, ops>>
    /\ UNCHANGED <<app, nbx>>

\* PEOPLE_COUNT -= 1, line 241: the store, and the release
dec_write(t) ==
    /\ th[t].pc = "dec_write"
    /\ PEOPLE_COUNT' = th[t].tmp - 1
    /\ ops' = Append(ops, "dec")
    /\ PEOPLE_LOCK' = release(PEOPLE_LOCK)
    /\ th' = [th EXCEPT ![t] = AfterUnlockAccess(th[t])]
    /\ UNCHANGED <<clock, WINDOW, UNLOCK_EVENTS, EVENT_LOG, EVENT_LOCK, nreq,
                   arrivals, recorded, granted>>
    /\ UNCHANGED <<app, nbx>>

\* PEOPLE_COUNT = 0, line 245, and the release
reset_write(t) ==
    /\ th[t].pc = "reset"
    /\ PEOPLE_COUNT' = 0
    /\ ops' = Append(ops, "reset")
    /\ PEOPLE_LOCK' = release(PEOPLE_LOCK)
    /\ th' = [th EXCEPT ![t] = Return(th[t])]
    /\ UNCHANGED <<clock, WINDOW, UNLOCK_EVENTS, EVENT_LOG, EVENT_LOCK, nreq,
                   arrivals, recorded, granted>>
    /\ UNCHANGED <<app, nbx>>

\* int(data.get('window', WINDOW)), line 263: does it raise?  int() of
\* None raises TypeError, int() of a string that is not an optional sign and
\* digits raises ValueError
WindowRaises(d) ==
    \/ d.wtype = "null"
    \/ d.wtype = "str" /\ ~IntOk(Strip(d.wstr))
\* ... and its value when it does not: int() of a float truncates
WindowValue(d, current) ==
    CASE d.wtype = "absent" -> current
      [] d.wtype = "str" -> IntVal(Strip(d.wstr))
      [] OTHER -> d.window

\* set_window(), lines 259-269
set_window(t, inputs, limit) ==
    /\ Free(t)
    /\ nreq < limit
    /\ \E d \in inputs :
         LET bad == IF WindowRaises(d) THEN TRUE
                    ELSE LET new_window == WindowValue(d, WINDOW)
                         IN new_window < WINDOW_MIN \/ new_window > WINDOW_MAX
         IN /\ WINDOW' = IF bad THEN WINDOW ELSE WindowValue(d, WINDOW)
            /\ th' = [th EXCEPT ![t] =
                        [Idle EXCEPT !.pc = "done", !.kind = "set_window",
                                     !.data = d, !.w0 = WINDOW,
                                     !.status = IF bad THEN "error" ELSE "ok"]]
    /\ nreq' = nreq + 1
    /\ UNCHANGED <<clock, UNLOCK_EVENTS, PEOPLE_COUNT, PEOPLE_LOCK, EVENT_LOG,
                   EVENT_LOCK, arrivals, recorded, granted, ops>>
    /\ UNCHANGED <<app, nbx>>

\* data.get('mode', '').lower() in ['tailgating', 'linecrossing'], lines
\* 251-252; .lower() of a value that is not a string raises AttributeError
ModeAccepted(d) ==
    /\ d.mtype = "str"
    /\ lower(d.mode) \in {STR_TAILGATING, STR_LINECROSSING}
ModeName(d) ==
    IF lower(d.mode) = STR_TAILGATING THEN "tailgating" ELSE "linecrossing"

\* set_mode(), lines 249-256
set_mode(t, inputs, limit) ==
    /\ Free(t)
    /\ nreq < limit
    /\ \E d \in inputs :
         /\ app' = IF ModeAccepted(d) THEN [app EXCEPT !.MODE = ModeName(d)]
                   ELSE app
         /\ th' = [th EXCEPT ![t] =
                     [Idle EXCEPT !.pc = "done", !.kind = "set_mode",
                                  !.data = d, !.m0 = app.MODE,
                                  !.status = IF ModeAccepted(d) THEN "ok"
                                             ELSE "error"]]
    /\ nreq' = nreq + 1
    /\ UNCHANGED <<clock, WINDOW, UNLOCK_EVENTS, PEOPLE_COUNT, PEOPLE_LOCK,
                   EVENT_LOG, EVENT_LOCK, arrivals, recorded, granted, ops,
                   nbx>>

\* set_netbox_config(), lines 289-303: a worker picks up a POST
\* /set_netbox_config and stores the new configuration
set_netbox_config(t, inputs, limit) ==
    /\ Free(t)
    /\ nreq < limit
    /\ \E d \in inputs :
         /\ app' = [app EXCEPT !.enabled = d.enabled]
         /\ th' = [th EXCEPT ![t] =
                     [Idle EXCEPT !.pc = IF d.enabled THEN "nb_check" ELSE "done",
                                  !.kind = "set_netbox_config", !.data = d,
                                  !.status = "ok"]]
    /\ nreq' = nreq + 1
    /\ UNCHANGED <<clock, WINDOW, UNLOCK_EVENTS, PEOPLE_COUNT, PEOPLE_LOCK,
                   EVENT_LOG, EVENT_LOCK, arrivals, recorded, granted, ops,
                   nbx>>

\* Thread.is_alive(): started and not yet finished
is_alive(l) == l # 0 /\ nbx.alive[l] = "alive"

\* start_netbox_thread(), lines 334-335: already running?
start_netbox_check(t) ==
    /\ th[t].pc = "nb_check"
    /\ th' = [th EXCEPT ![t] = IF is_alive(app.netbox_thread)
                               THEN Return(th[t])
                               ELSE [th[t] EXCEPT !.pc = "nb_cfg"]]
    /\ UNCHANGED nreq
    /\ UNCHANGED Others
    /\ UNCHANGED <<app, nbx>>

\* start_netbox_thread(), lines 336-339: is the integration enabled?
start_netbox_cfg(t) ==
    /\ th[t].pc = "nb_cfg"
    /\ th' = [th EXCEPT ![t] = IF app.enabled
                               THEN [th[t] EXCEPT !.pc = "nb_create"]
                               ELSE Return(th[t])]
    /\ UNCHANGED nreq
    /\ UNCHANGED Others
    /\ UNCHANGED <<app, nbx>>

\* start_netbox_thread(), line 404: app.netbox_thread = threading.Thread(...)
start_netbox_create(t) ==
    /\ th[t].pc = "nb_create"
    /\ \E l \in Listeners :
         /\ nbx.alive[l] = "none"
         /\ \A m \in Listeners : m < l => nbx.alive[m] # "none"
         /\ nbx' = [nbx EXCEPT !.alive[l] = "created"]
         /\ app' = [app EXCEPT !.netbox_thread = l]
    /\ th' = [th EXCEPT ![t].pc = "nb_start"]
    /\ UNCHANGED <<clock, WINDOW, UNLOCK_EVENTS, PEOPLE_COUNT, PEOPLE_LOCK,
                   EVENT_LOG, EVENT_LOCK, nreq, arrivals, recorded, granted,
                   ops>>

\* start_netbox_thread(), line 405: app.netbox_thread.start() reads the
\* attribute again; starting a thread a second time raises RuntimeError
start_netbox_start(t) ==
    /\ th[t].pc = "nb_start"
    /\ LET l == app.netbox_thread
       IN IF nbx.alive[l] = "created"
          THEN /\ nbx' = [nbx EXCEPT !.alive[l] = "alive"]
               /\ th' = [th EXCEPT ![t] = Return(th[t]),
                                   ![l] = [Idle EXCEPT !.pc = "login",
                                                       !.kind = "netbox"]]
          ELSE /\ nbx' = nbx
               /\ th' = [th EXCEPT ![t] = Raise(th[t])]
    /\ UNCHANGED <<clock, WINDOW, UNLOCK_EVENTS, PEOPLE_COUNT, PEOPLE_LOCK,
                   EVENT_LOG, EVENT_LOCK, nreq, arrivals, recorded, granted,
                   ops, app>>

\* netbox_wrapper, lines 357-378: the login succeeds and the event stream
\* is open; the events NetBox sent before are not seen
listener_login(l) ==
    /\ th[l].pc = "login"
    /\ th' = [th EXCEPT ![l].pc = "stream", ![l].i = Len(nbx.notices)]
    /\ UNCHANGED nreq
    /\ UNCHANGED Others
    /\ UNCHANGED <<app, nbx>>

\* netbox_wrapper, lines 361-363 and 402-403: no session id, or the request
\* raises: the thread ends
listener_stop(l) ==
    /\ th[l].pc = "login"
    /\ th' = [th EXCEPT ![l].pc = "ended"]
    /\ nbx' = [nbx EXCEPT !.alive[l] = "dead"]
    /\ UNCHANGED nreq
    /\ UNCHANGED Others
    /\ UNCHANGED app

\* NetBox sends an access event to every open event stream
Notify ==
    /\ Len(nbx.notices) < MaxNotices
    /\ \E d \in NoticeInputs : nbx' = [nbx EXCEPT !.notices = Append(@, d)]
    /\ UNCHANGED <<th, nreq, app>>
    /\ UNCHANGED Others

\* netbox_wrapper, lines 380-392: the next event of the stream and its time
listener_receive(l) ==
    /\ th[l].pc = "stream"
    /\ th[l].i < Len(nbx.notices)
    /\ th' = [th EXCEPT ![l] =
                [Idle EXCEPT !.pc = "log", !.kind = "netbox",
                             !.data = AccessData(nbx.notices[th[l].i + 1]),
                             !.now = clock, !.i = th[l].i + 1,
                             !.notice = th[l].i + 1, !.a0 = arrivals,
                             !.o0 = Len(ops), !.u0 = recorded,
                             !.c0 = PEOPLE_COUNT]]
    /\ UNCHANGED nreq
    /\ UNCHANGED Others
    /\ UNCHANGED <<app, nbx>>

\* the steps of a netbox thread
ListenerStep(l) ==
    \/ listener_login(l)
    \/ listener_stop(l)
    \/ listener_receive(l)
    \/ log_event_enter(l)
    \/ log_event_append(l)
    \/ record_unlock(l)
    \/ prune_unlocks_build(l)
    \/ prune_unlocks_store(l)

\* clear_db(), lines 423-428: a worker picks up a POST /clear_db
StartClear(t, limit) ==
    /\ Free(t)
    /\ nreq < limit
    /\ th' = [th EXCEPT ![t] = [Idle EXCEPT !.pc = "clear_acq",
                                            !.kind = "clear_db",
                                            !.status = "ok"]]
    /\ nreq' = nreq + 1
    /\ UNCHANGED Others
    /\ UNCHANGED <<app, nbx>>

\* clear_db(), line 429: with EVENT_LOCK
clear_enter(t) ==
    /\ th[t].pc = "clear_acq"
    /\ EVENT_LOCK = 0
    /\ EVENT_LOCK' = t
    /\ th' = [th EXCEPT ![t].pc = "clear_cs"]
    /\ UNCHANGED <<clock, WINDOW, UNLOCK_EVENTS, PEOPLE_COUNT, PEOPLE_LOCK,
                   EVENT_LOG, nreq, arrivals, recorded, granted, ops>>
    /\ UNCHANGED <<app, nbx>>

\* clear_db(), line 430: EVENT_LOG.clear(), and the release
clear_log(t) ==
    /\ th[t].pc = "clear_cs"
    /\ EVENT_LOG' = <<>>
    /\ EVENT_LOCK' = release(EVENT_LOCK)
    /\ th' = [th EXCEPT ![t] = Return(th[t])]
    /\ UNCHANGED <<clock, WINDOW, UNLOCK_EVENTS, PEOPLE_COUNT, PEOPLE_LOCK,
                   nreq, arrivals, recorded, granted, ops>>
    /\ UNCHANGED <<app, nbx>>

\* the steps inside a handler
Step(t) ==
    \/ log_event_enter(t)
    \/ log_event_append(t)
    \/ record_unlock(t)
    \/ prune_unlocks_build(t)
    \/ prune_unlocks_store(t)
    \/ match_unlocks(t)
    \/ consume_oldest(t)
    \/ patch_enter(t)
    \/ patch_verdict(t)
    \/ people_enter(t)
    \/ people_read(t)
    \/ inc_write(t)
    \/ inc_respond(t)
    \/ dec_write(t)
    \/ reset_write(t)
    \/ clear_enter(t)
    \/ clear_log(t)
    \/ events_read(t)

(* --------------------------- specifications ---------------------------- *)
\* the threaded server: NThreads workers serve requests concurrently
Next ==
    \/ Tick(MaxClock)
    \/ \E t \in Threads :
         \/ StartCamera(t, CameraInputsConc, MaxRequests)
         \/ StartAccess(t, AccessInputsConc, MaxRequests)
         \/ set_window(t, WindowInputsConc, MaxRequests)
         \/ StartClear(t, MaxRequests)
         \/ StartEvents(t, MaxRequests)
         \/ Step(t)

Spec == Init /\ [][Next]_vars

\* the threaded server under a fair scheduler: a thread that can take a
\* step of its handler is not left waiting forever
NextFair ==
    \E t \in Threads :
        \/ StartCamera(t, CameraInputsConc, MaxRequestsFair)
        \/ StartAccess(t, AccessInputsConc, MaxRequestsFair)
        \/ StartClear(t, MaxRequestsFair)
        \/ StartEvents(t, MaxRequestsFair)
        \/ Step(t)

SpecFair ==
    Init /\ [][NextFair]_vars /\ \A t \in Threads : WF_vars(Step(t))

\* one worker: every request is handled to its end before the next one
NextSeq ==
    \/ Tick(MaxClockSeq)
    \/ StartCamera(1, CameraInputs, MaxRequestsSeq)
    \/ StartAccess(1, AccessInputs, MaxRequestsSeq)
    \/ set_window(1, WindowInputs, MaxRequestsSeq)
    \/ StartClear(1, MaxRequestsSeq)
    \/ StartEvents(1, MaxRequestsSeq)
    \/ Step(1)

SpecSeq == Init /\ [][NextSeq]_vars

\* one worker, access events that are neither locks nor unlocks, and
\* clear_db: the event log alone, long enough to fill it
NextLog ==
    \/ StartAccess(1, AccessInputsLog, MaxLogRequests)
    \/ StartClear(1, MaxLogRequests)
    \/ log_event_enter(1)
    \/ log_event_append(1)
    \/ clear_enter(1)
    \/ clear_log(1)

SpecLog == Init /\ [][NextLog]_vars

\* one worker and the configuration requests alone, with every kind of
\* JSON value
NextConf ==
    \/ set_window(1, WindowInputsConf, MaxRequestsConf)
    \/ set_mode(1, ModeInputs, MaxRequestsConf)

SpecConf == Init /\ [][NextConf]_vars

\* the NetBox integration: workers serve set_netbox_config requests, the
\* netbox threads they start receive the events NetBox sends
NextNb ==
    \/ Tick(MaxClockNb)
    \/ Notify
    \/ \E t \in Threads :
         \/ set_netbox_config(t, NetboxInputs, MaxRequestsNb)
         \/ start_netbox_check(t)
         \/ start_netbox_cfg(t)
         \/ start_netbox_create(t)
         \/ start_netbox_start(t)
    \/ \E l \in Listeners : ListenerStep(l)

SpecNb == Init /\ [][NextNb]_vars

\* prune_unlocks alone: the window starts with any list of up to MaxLen
\* timestamps not later than the clock (the log has been cleared), WINDOW
\* has any value up to MaxWindowPrune, and one worker handles tailgating
\* events that require 0 unlocks, one after the other at the same time:
\* each of them calls prune_unlocks once and consumes nothing
PruneLists ==
    UNION {[1..n -> 0..MaxTs] : n \in 0..MaxLen}
PruneInputs == {CameraData("tailgating", TRUE, <<"0">>)}
InitPrune ==
    /\ clock \in 0..MaxTs
    /\ WINDOW \in WINDOW_MIN..MaxWindowPrune
    /\ UNLOCK_EVENTS \in {l \in PruneLists : \A i \in 1..Len(l) : l[i] <= clock}
    /\ PEOPLE_COUNT = 0
    /\ PEOPLE_LOCK = 0
    /\ EVENT_LOG = <<>>
    /\ EVENT_LOCK = 0
    /\ th = [t \in AllThreads |-> Idle]
    /\ nreq = 0
    /\ arrivals = Len(UNLOCK_EVENTS)
    /\ recorded = Len(UNLOCK_EVENTS)
    /\ granted = 0
    /\ ops = <<>>
    /\ app = [MODE |-> "", enabled |-> FALSE, netbox_thread |-> 0]
    /\ nbx = [alive |-> [l \in Listeners |-> "none"], notices |-> <<>>,
              appended |-> <<>>]
NextPrune ==
    \/ StartCamera(1, PruneInputs, MaxRequestsPrune)
    \/ log_event_enter(1)
    \/ log_event_append(1)
    \/ prune_unlocks_build(1)
    \/ prune_unlocks_store(1)
    \/ match_unlocks(1)
    \/ patch_enter(1)
    \/ patch_verdict(1)

SpecPrune == InitPrune /\ [][NextPrune]_vars

(* ------------------------------- claims -------------------------------- *)
IsTailgating(t) ==
    th[t].kind = "camera" /\ th[t].data.EventType = "tailgating"

\* how many timestamps of events lie in the window [q - d, q]
InWindowCount(events, q, d) ==
    Cardinality({i \in 1..Len(events) : 0 <= q - events[i] /\ q - events[i] <= d})

\* C1: each recorded unlock justifies at most one NO TAILGATE verdict: the
\* required counts of all checks answered NO TAILGATE never add up to more
\* than the number of unlocks recorded.
C1_NoDoubleUse == granted <= recorded

\* C2: a tailgating check that finds k unlocks in the window and requires
\* n >= 0 answers NO TAILGATE and removes exactly n of them when k >= n, and
\* answers TAILGATING and leaves the window as it is when k < n.
C2_ExactConsumption ==
    \A t \in Threads :
        (IsTailgating(t) /\ th[t].pc = "done" /\ th[t].count >= 0) =>
            LET n == th[t].count
                k == InWindowCount(th[t].base, th[t].now, WINDOW)
            IN IF k >= n
               THEN /\ th[t].classification = "NO TAILGATE"
                    /\ Len(UNLOCK_EVENTS) = Len(th[t].base) - n
                    /\ \A i \in 1..Len(UNLOCK_EVENTS) :
                           CountOf(UNLOCK_EVENTS[i], UNLOCK_EVENTS)
                               <= CountOf(UNLOCK_EVENTS[i], th[t].base)
               ELSE /\ th[t].classification = "TAILGATING"
                    /\ UNLOCK_EVENTS = th[t].base

\* two unlocks in the window, a check requiring 2: NO TAILGATE, window empty
C2_Witness ==
    \E t \in Threads :
        /\ IsTailgating(t) /\ th[t].pc = "done" /\ th[t].count = 2
        /\ Len(th[t].base) = 2
        /\ th[t].classification = "NO TAILGATE"
        /\ UNLOCK_EVENTS = <<>>

\* C3: after a successful check the unlocks removed are the oldest ones:
\* every unlock left in the window is at least as recent as every removed
\* one.
C3_OldestFirst ==
    \A t \in Threads :
        (IsTailgating(t) /\ th[t].pc = "done"
           /\ th[t].classification = "NO TAILGATE") =>
            \A i \in 1..Len(th[t].base) :
                CountOf(th[t].base[i], th[t].base)
                        > CountOf(th[t].base[i], UNLOCK_EVENTS) =>
                    \A j \in 1..Len(UNLOCK_EVENTS) :
                        (0 <= th[t].now - UNLOCK_EVENTS[j]
                           /\ th[t].now - UNLOCK_EVENTS[j] <= WINDOW) =>
                            UNLOCK_EVENTS[j] >= th[t].base[i]

\* an older and a newer unlock in the window, a check requiring 1: the newer
\* one is left
C3_Witness ==
    \E t \in Threads :
        /\ IsTailgating(t) /\ th[t].pc = "done" /\ th[t].count = 1
        /\ th[t].classification = "NO TAILGATE"
        /\ Len(th[t].base) = 2
        /\ th[t].base[1] < th[t].base[2]
        /\ UNLOCK_EVENTS = <<th[t].base[2]>>

\* C4: the unlocks a check at query time q counts are exactly the held
\* unlocks t with 0 <= q - t <= WINDOW, the boundary q - t = WINDOW included.
C4_EligibleInWindow ==
    \A t \in Threads :
        (IsTailgating(t) /\ th[t].pc \in {"consume", "patch", "patch_cs", "done"}) =>
            th[t].k = InWindowCount(th[t].held, th[t].now, WINDOW)

\* C5: right after prune_unlocks ran at time now, no timestamp of the window
\* is older than now - WINDOW, and every timestamp that was there before and
\* is not older than now - WINDOW is still there.
C5_PruneExact ==
    \A t \in Threads :
        th[t].pc \in {"match", "dec_acq"} =>
            LET lim == th[t].pnow - WINDOW
                was == th[t].before
            IN /\ \A i \in 1..Len(UNLOCK_EVENTS) : UNLOCK_EVENTS[i] >= lim
               /\ \A i \in 1..Len(was) :
                      was[i] >= lim =>
                          CountOf(was[i], UNLOCK_EVENTS) = CountOf(was[i], was)

\* a prune that drops an expired unlock and keeps one exactly on the boundary
C5_Witness ==
    \E t \in Threads :
        /\ th[t].pc \in {"match", "dec_acq"}
        /\ Len(th[t].before) > Len(UNLOCK_EVENTS)
        /\ \E i \in 1..Len(UNLOCK_EVENTS) :
               UNLOCK_EVENTS[i] = th[t].pnow - WINDOW

\* a caption that gives no usable count: absent, empty, not a number, negative
MalformedCaption(data) ==
    \/ ~data.hasCaption
    \/ data.EventCaption \in { <<>>, <<"a">>, <<"-","1">> }

\* C6: a tailgating event whose caption gives no usable count is matched with
\* a required count of 2 and still gets a classification.
C6_MalformedFallsBack ==
    \A t \in Threads :
        (IsTailgating(t) /\ MalformedCaption(th[t].data)
           /\ th[t].pc \in {"done", "error"}) =>
            /\ th[t].pc = "done"
            /\ th[t].count = 2
            /\ th[t].classification \in {"NO TAILGATE", "TAILGATING"}

\* C7: a tailgating event requiring 0 is never refused and never removes an
\* unlock: it does not enter the consuming loop, does not fail, and its
\* verdict is NO TAILGATE.
C7_ZeroAlwaysPasses ==
    \A t \in Threads :
        (IsTailgating(t) /\ th[t].data.hasCaption
           /\ th[t].data.EventCaption = <<"0">>) =>
            /\ th[t].pc \notin {"consume", "error"}
            /\ th[t].removed = <<>>
            /\ th[t].pc \in {"patch", "patch_cs", "done"} =>
                   th[t].verdict = "NO TAILGATE"
            /\ th[t].pc = "done" => th[t].classification = "NO TAILGATE"

\* a check requiring 0 answered NO TAILGATE on an empty window
C7_Witness ==
    \E t \in Threads :
        /\ IsTailgating(t) /\ th[t].data.EventCaption = <<"0">>
        /\ th[t].pc = "done"
        /\ th[t].classification = "NO TAILGATE"
        /\ th[t].base = <<>>
        /\ UNLOCK_EVENTS = <<>>

\* the counter after the operations of s, applied in order from 0
RECURSIVE Replay(_)
Replay(s) ==
    IF s = <<>> THEN 0
    ELSE LET before == Replay(SubSeq(s, 1, Len(s) - 1))
             op == s[Len(s)]
         IN IF op = "inc" THEN before + 1
            ELSE IF op = "dec" THEN before - 1
            ELSE 0

C9_UnlockDecrements ==
    \A t \in Threads :
        (th[t].kind = "access" /\ th[t].data.desc = DOOR_UNLOCK
           /\ th[t].pc = "done") =>
            PEOPLE_COUNT = th[t].c0 - 1

\* C10: the event log holds at most 100 entries, the most recent arrival
\* first and each next one the arrival just before it: an entry leaves a full
\* log only as the earliest arrival in it.
C10_LogBoundedNewestFirst ==
    /\ Len(EVENT_LOG) <= 100
    /\ \A i \in 1..Len(EVENT_LOG) : EVENT_LOG[i].arrival = arrivals - i + 1

\* a full log from which the first arrival has been evicted
C10_Witness ==
    /\ Len(EVENT_LOG) = 100
    /\ EVENT_LOG[1].arrival = 101
    /\ EVENT_LOG[100].arrival = 2

(* C11: a set_window request whose value is not an integer or lies       *)
(* outside 1..60, and a set_mode request whose mode is neither            *)
(* 'tailgating' nor 'linecrossing' (in any case of letters), is answered  *)
(* with an error and changes neither WINDOW nor MODE; an accepted         *)
(* set_window sets WINDOW to the value sent; WINDOW is within 1..60 in    *)
(* every state.                                                           *)
WindowIsInteger(d) ==
    \/ d.wtype = "int"
    \/ d.wtype = "float" /\ d.wfrac = 0
    \/ d.wtype = "str" /\ IntOk(Strip(d.wstr))
WindowInRange(d) ==
    LET v == WindowValue(d, 0)
    IN IF d.wtype = "float"
       THEN WINDOW_MIN * 10 <= v * 10 + d.wfrac /\ v * 10 + d.wfrac <= WINDOW_MAX * 10
       ELSE WINDOW_MIN <= v /\ v <= WINDOW_MAX
C11_BadConfigRejected ==
    /\ WINDOW_MIN <= WINDOW /\ WINDOW <= WINDOW_MAX
    /\ LET r == th[1]
       IN /\ (r.pc = "done" /\ r.kind = "set_window" /\ r.data.wtype \notin {"absent"}) =>
               IF WindowIsInteger(r.data) /\ WindowInRange(r.data)
               THEN r.status = "ok" /\ WINDOW = WindowValue(r.data, 0)
               ELSE r.status = "error" /\ WINDOW = r.w0
          /\ (r.pc = "done" /\ r.kind = "set_mode" /\ ~ModeAccepted(r.data)) =>
               r.status = "error" /\ app.MODE = r.m0

(* C12: a tailgating camera event never ends in an unhandled failure and, *)
(* once handled, is classified NO TAILGATE or TAILGATING, in whatever     *)
(* order the steps of concurrent requests interleave.                     *)
C12_AlwaysClassified ==
    \A t \in Threads :
        IsTailgating(t) =>
            /\ th[t].pc # "error"
            /\ th[t].pc = "done" =>
                   th[t].classification \in {"NO TAILGATE", "TAILGATING"}

(* C13: when camera() has finished a tailgating event, the log entry that *)
(* was appended for this event, if it is still in the log, carries the    *)
(* verdict the response returned, and the patch changed no entry of       *)
(* another event.                                                         *)
C13_PatchOwnEntry ==
    \A t \in Threads :
        (IsTailgating(t) /\ th[t].pc = "done") =>
            /\ th[t].patched \in {0, th[t].entry}
            /\ \A i \in 1..Len(EVENT_LOG) :
                   EVENT_LOG[i].arrival = th[t].entry =>
                       EVENT_LOG[i].verdict = th[t].classification

(* C14: a timestamp leaves UNLOCK_EVENTS only in a step of the consuming  *)
(* loop that removes it for a NO TAILGATE verdict, or in the assignment   *)
(* of a prune for which it is older than the window (ts < now - WINDOW).  *)
C14_NoLostUnlock ==
    [][\A x \in 0..MaxClock :
          CountOf(x, UNLOCK_EVENTS') < CountOf(x, UNLOCK_EVENTS) =>
              \/ \E t \in AllThreads :
                     /\ th[t].pc = "consume"
                     /\ th'[t].removed = Append(th[t].removed, x)
                     /\ CountOf(x, UNLOCK_EVENTS') = CountOf(x, UNLOCK_EVENTS) - 1
              \/ \E t \in AllThreads :
                     /\ th[t].pc = "prune_store"
                     /\ th'[t].pc # "prune_store"
                     /\ x < th[t].cutoff]_vars

InEventBlock(t) == th[t].pc \in {"log_cs", "patch_cs", "clear_cs"}
InPeopleBlock(t) ==
    th[t].pc \in {"inc_read", "inc_write", "inc_resp", "dec_read", "dec_write",
                  "reset", "ev_read"}
WaitsForLock(t) ==
    th[t].pc \in {"log", "patch", "clear_acq", "inc_acq", "dec_acq",
                  "reset_acq", "ev_acq"}
NoNestedLocks ==
    \A t \in AllThreads :
        /\ ~(EVENT_LOCK = t /\ PEOPLE_LOCK = t)
        /\ EVENT_LOCK = t => InEventBlock(t)
        /\ PEOPLE_LOCK = t => InPeopleBlock(t)
        /\ WaitsForLock(t) => (EVENT_LOCK # t /\ PEOPLE_LOCK # t)
(* C18: no thread ever holds EVENT_LOCK and PEOPLE_LOCK at once: the      *)
(* holder of a lock is always inside that lock's with block and no thread *)
(* waits for one lock while it holds the other; and, under a fair         *)
(* scheduler, a thread that waits for a lock gets it.                     *)
C18_NoLockOrderDeadlock ==
    /\ []NoNestedLocks
    /\ \A t \in Threads : WaitsForLock(t) ~> ~WaitsForLock(t)
\* one thread patches a verdict under EVENT_LOCK while another one is in
\* its PEOPLE_LOCK block
C18_Witness ==
    \E t, u \in Threads :
        /\ t # u
        /\ EVENT_LOCK = t /\ th[t].pc = "patch_cs"
        /\ PEOPLE_LOCK = u /\ InPeopleBlock(u)

(* C16: between the append of a tailgating event's log entry and the     *)
(* patch of its verdict, the entry shows a provisional verdict: a reader  *)
(* of the log never sees TAILGATING or NO TAILGATE on it before the       *)
(* classification is made.                                                *)
C16_ProvisionalVerdict ==
    (/\ IsTailgating(1)
     /\ th[1].pc \in {"prune", "prune_store", "match", "consume", "patch"}) =>
        \A i \in 1..Len(EVENT_LOG) :
            EVENT_LOG[i].arrival = th[1].entry =>
                EVENT_LOG[i].verdict \notin {"TAILGATING", "NO TAILGATE"}

(* C17: a line-crossing camera event adds exactly one to PEOPLE_COUNT,    *)
(* appends exactly one log entry (its own, at the front), answers with    *)
(* the new count, leaves UNLOCK_EVENTS as it was (expired timestamps      *)
(* included) and produces no classification.                              *)
IsLineCrossing(t) ==
    th[t].kind = "camera" /\ th[t].data.EventType = "linecrossing"
C17_LineCrossingCounts ==
    (IsLineCrossing(1) /\ th[1].pc = "done") =>
        /\ PEOPLE_COUNT = th[1].c0 + 1
        /\ th[1].people_count = <<th[1].c0 + 1>>
        /\ arrivals = th[1].a0 + 1
        /\ EVENT_LOG # <<>>
        /\ EVENT_LOG[1].arrival = th[1].entry
        /\ EVENT_LOG[1].type = "camera"
        /\ UNLOCK_EVENTS = th[1].held
        /\ th[1].classification = ""
        /\ th[1].removed = <<>>
\* a line crossing handled while the window holds an expired unlock
C17_Witness ==
    /\ IsLineCrossing(1) /\ th[1].pc = "done"
    /\ \E i \in 1..Len(UNLOCK_EVENTS) : UNLOCK_EVENTS[i] < clock - WINDOW
    /\ PEOPLE_COUNT = th[1].c0 + 1

(* C19: a second prune_unlocks at the same time and with the same WINDOW, *)
(* no unlock recorded in between, leaves UNLOCK_EVENTS as the first prune *)
(* left it.                                                               *)
AfterSecondPrune ==
    /\ nreq = 2
    /\ th[1].pc \in {"match", "patch", "patch_cs", "done"}
C19_PruneIdempotent ==
    AfterSecondPrune => UNLOCK_EVENTS = th[1].before
\* the first prune dropped an unlock and kept another one
C19_Witness ==
    /\ AfterSecondPrune
    /\ UNLOCK_EVENTS # <<>>
    /\ Len(UNLOCK_EVENTS) < recorded

(* C15: when a netbox thread has handled an access event, the effect is  *)
(* that of test_access with the same description: a log entry was         *)
(* appended; for an unlock, one unlock was recorded and the counter was   *)
(* decremented; for a description holding 'lock', the counter was reset.  *)
OpSince(op, n) == \E i \in (n + 1)..Len(ops) : ops[i] = op
C15_ListenerLikeTestAccess ==
    \A l \in Listeners :
        (th[l].pc = "stream" /\ th[l].notice > 0) =>
            /\ arrivals > th[l].a0
            /\ HasUnlock(th[l].data.desc) =>
                   recorded > th[l].u0 /\ OpSince("dec", th[l].o0)
            /\ HasLock(th[l].data.desc) => OpSince("reset", th[l].o0)

(* C20: at most one netbox thread is alive at any time, and no event that *)
(* NetBox sent is appended to UNLOCK_EVENTS more than once.               *)
C20_SingleListener ==
    /\ Cardinality({l \in Listeners : is_alive(l)}) <= 1
    /\ \A n \in 1..Len(nbx.notices) : CountOf(n, nbx.appended) <= 1

====
